---------------------------- MODULE Spec2Model ----------------------------
(* Model of src/app.py: the market-research pipeline                       *)
(*   validate -> plan queries -> retrieve -> filter -> report              *)
(* Text is a sequence of one-character strings, so that strip, split,      *)
(* upper/lower and substring tests are computed as Python computes them.   *)
EXTENDS Integers, Sequences, FiniteSets, TLC

VARIABLES pc, api_key, user_input, ext, validation, queries, raw_docs,
          final_docs, sources_info, calls, returned, outcome

vars == <<pc, api_key, user_input, ext, validation, queries, raw_docs,
          final_docs, sources_info, calls, returned, outcome>>

-----------------------------------------------------------------------------
(* Python str operations                                                   *)

\* characters str.strip() and str.split() treat as whitespace
Whitespace == {" ", "\t", "\n"}

LowerLetters == <<"a","b","c","d","e","f","g","h","i","j","k","l","m",
                  "n","o","p","q","r","s","t","u","v","w","x","y","z">>
UpperLetters == <<"A","B","C","D","E","F","G","H","I","J","K","L","M",
                  "N","O","P","Q","R","S","T","U","V","W","X","Y","Z">>

\* the letters str.upper() and str.lower() change
ToUpper ==
    [c \in {LowerLetters[k] : k \in 1..Len(LowerLetters)} |->
        UpperLetters[CHOOSE k \in 1..Len(LowerLetters) : LowerLetters[k] = c]]

ToLower ==
    [c \in {UpperLetters[k] : k \in 1..Len(UpperLetters)} |->
        LowerLetters[CHOOSE k \in 1..Len(UpperLetters) : UpperLetters[k] = c]]

UpperChar(c) == IF c \in DOMAIN ToUpper THEN ToUpper[c] ELSE c

LowerChar(c) == IF c \in DOMAIN ToLower THEN ToLower[c] ELSE c

\* str.upper()
Upper(s) == [k \in 1..Len(s) |-> UpperChar(s[k])]

\* str.lower()
Lower(s) == [k \in 1..Len(s) |-> LowerChar(s[k])]

\* s[:n]
Take(s, n) == SubSeq(s, 1, IF Len(s) < n THEN Len(s) ELSE n)

\* s[n:]  (n counted from 0)
Drop(s, n) == SubSeq(s, n + 1, Len(s))

\* str.strip(chars): drop leading and trailing characters that are in chars
StripChars(s, chars) ==
    LET keep == {k \in 1..Len(s) : s[k] \notin chars}
    IN  IF keep = {} THEN <<>>
        ELSE LET lo == CHOOSE k \in keep : \A j \in keep : k <= j
                 hi == CHOOSE k \in keep : \A j \in keep : j <= k
             IN  SubSeq(s, lo, hi)

\* str.strip()
Strip(s) == StripChars(s, Whitespace)

\* str.startswith(p)
StartsWith(s, p) == Len(p) <= Len(s) /\ SubSeq(s, 1, Len(p)) = p

\* p in s
Contains(s, p) ==
    \E k \in 0..(Len(s) - Len(p)) : SubSeq(s, k + 1, k + Len(p)) = p

\* str.split(sep) for a one-character sep: every separator cuts, empty
\* pieces are kept, and the empty string gives one empty piece
RECURSIVE SplitOn(_, _)
SplitOn(s, sep) ==
    IF \A k \in 1..Len(s) : s[k] # sep THEN <<s>>
    ELSE LET at == CHOOSE k \in 1..Len(s) :
                     s[k] = sep /\ \A j \in 1..(k - 1) : s[j] # sep
         IN  <<SubSeq(s, 1, at - 1)>> \o SplitOn(Drop(s, at), sep)

\* str.split(): cut at runs of whitespace, no empty pieces
RECURSIVE Split(_)
Split(s) ==
    LET t == IF \E k \in 1..Len(s) : s[k] \notin Whitespace
             THEN Drop(s, (CHOOSE k \in 1..Len(s) :
                             s[k] \notin Whitespace
                             /\ \A j \in 1..(k - 1) : s[j] \in Whitespace) - 1)
             ELSE <<>>
    IN  IF t = <<>> THEN <<>>
        ELSE IF \A k \in 1..Len(t) : t[k] \notin Whitespace THEN <<t>>
        ELSE LET at == CHOOSE k \in 1..Len(t) :
                         t[k] \in Whitespace
                         /\ \A j \in 1..(k - 1) : t[j] \notin Whitespace
             IN  <<SubSeq(t, 1, at - 1)>> \o Split(Drop(t, at))

\* str.splitlines(): cut at line ends; a final line end adds no empty line
SplitLines(s) ==
    IF s = <<>> THEN <<>>
    ELSE LET parts == SplitOn(s, "\n")
         IN  IF parts[Len(parts)] = <<>>
             THEN SubSeq(parts, 1, Len(parts) - 1)
             ELSE parts

\* str.replace(old, ""), old not empty: leftmost matches, not overlapping
RECURSIVE Remove(_, _)
Remove(s, old) ==
    IF Len(s) < Len(old) THEN s
    ELSE IF StartsWith(s, old) THEN Remove(Drop(s, Len(old)), old)
    ELSE <<s[1]>> \o Remove(Drop(s, 1), old)

\* [f(x) for x in s if p(x)] is written with these two
RECURSIVE SelectSeqIdx(_, _)
SelectSeqIdx(s, keep) ==
    IF s = <<>> THEN <<>>
    ELSE (IF 1 \in keep THEN <<s[1]>> ELSE <<>>)
         \o SelectSeqIdx(Tail(s), {k - 1 : k \in keep \ {1}})

-----------------------------------------------------------------------------
(* The Oracle (llm.invoke) and the document service (retriever.invoke)     *)
(* either answer or raise.                                                 *)

\* llm.invoke raised; a reply is a text of one-character strings
OracleErr == <<"Err">>

\* retriever.invoke raised; an answer is a sequence of documents
ServiceErr == <<[raised |-> TRUE]>>

-----------------------------------------------------------------------------
(* validate_industry                                                       *)

VALID == <<"V","A","L","I","D">>
INVALID == <<"I","N","V","A","L","I","D">>
SUGGESTIONS == <<"S","U","G","G","E","S","T","I","O","N","S",":">>

\* line 62 without the .upper()
ClassificationNoUpper(classification_raw) == Split(classification_raw)[1]

\* line 62: classification_raw.split()[0].upper()
Classification(classification_raw) == Upper(Split(classification_raw)[1])

\* lines 72-77: the last INVALID line gives the reason, the last
\* SUGGESTIONS: line the suggestions
RECURSIVE ParseRejection(_, _, _)
ParseRejection(lines, reason, suggestions) ==
    IF lines = <<>> THEN [reason |-> reason, suggestions |-> suggestions]
    ELSE LET line == Head(lines)
         IN  IF StartsWith(line, INVALID)
             THEN ParseRejection(Tail(lines),
                      Strip(Remove(Remove(line, INVALID), <<"-">>)),
                      suggestions)
             ELSE IF StartsWith(line, SUGGESTIONS)
             THEN LET parts == SplitOn(Strip(Remove(line, SUGGESTIONS)), ",")
                  IN  ParseRejection(Tail(lines), reason,
                          [k \in 1..Len(parts) |-> Strip(parts[k])])
             ELSE ParseRejection(Tail(lines), reason, suggestions)

\* validate_industry(user_input, llm), given what llm.invoke answers.
\* raised: the Oracle call raised, or the reply has no token (IndexError).
validate_industry(reply) ==
    IF reply = OracleErr
    THEN [raised |-> TRUE, is_valid |-> FALSE, reason |-> <<>>, suggestions |-> <<>>]
    ELSE LET classification_raw == Strip(reply)
         IN  IF Split(classification_raw) = <<>>
             THEN [raised |-> TRUE, is_valid |-> FALSE, reason |-> <<>>,
                   suggestions |-> <<>>]
             ELSE IF Classification(classification_raw) = VALID
             THEN [raised |-> FALSE, is_valid |-> TRUE, reason |-> <<>>,
                   suggestions |-> <<>>]
             ELSE LET p == ParseRejection(SplitOn(classification_raw, "\n"),
                                          <<>>, <<>>)
                  IN  [raised |-> FALSE, is_valid |-> FALSE,
                       reason |-> p.reason, suggestions |-> p.suggestions]

-----------------------------------------------------------------------------
(* generate_queries                                                        *)

\* lines 119-123
ParseQueries(setup_data) ==
    LET lines == SplitLines(setup_data)
        kept  == SelectSeqIdx(lines,
                    {k \in 1..Len(lines) : StartsWith(Strip(lines[k]), <<"-">>)})
    IN  [k \in 1..Len(kept) |-> Strip(StripChars(kept[k], {"-", " "}))]

\* generate_queries(user_input, llm), given what llm.invoke answers
generate_queries(reply) ==
    IF reply = OracleErr THEN [raised |-> TRUE, queries |-> <<>>]
    ELSE [raised |-> FALSE, queries |-> ParseQueries(Strip(reply))]

-----------------------------------------------------------------------------
(* Documents: doc.metadata["title"], doc.metadata["source"], page_content  *)

Titles(docs) == [k \in 1..Len(docs) |-> docs[k].title]

TitleSet(docs) == {docs[k].title : k \in 1..Len(docs)}

-----------------------------------------------------------------------------
(* retrieve_documents                                                      *)

\* lines 131-133: one retriever.invoke per query, no handler around it, so
\* the first call that raises ends the loop and the function.
\* resp[k] is what the document service does on the k-th call.
RECURSIVE RetrieveLoop(_, _, _, _)
RetrieveLoop(qs, resp, k, all_docs) ==
    IF k > Len(qs)
    THEN [raised |-> FALSE, all_docs |-> all_docs, issued |-> qs]
    ELSE IF resp[k] = ServiceErr
    THEN [raised |-> TRUE, all_docs |-> all_docs, issued |-> SubSeq(qs, 1, k)]
    ELSE RetrieveLoop(qs, resp, k + 1, all_docs \o resp[k])

\* a dict keeping, for each title, the first document appended with it
DedupFirstWins(all_docs) ==
    SelectSeqIdx(all_docs,
        {k \in 1..Len(all_docs) :
            \A j \in 1..(k - 1) : all_docs[j].title # all_docs[k].title})

\* lines 136-137: list({title: doc for doc in all_docs}.values()): keys in
\* first-insertion order, each holding the last document stored under it
Dedup(all_docs) ==
    LET firsts == SelectSeqIdx(all_docs,
                    {k \in 1..Len(all_docs) :
                        \A j \in 1..(k - 1) : all_docs[j].title # all_docs[k].title})
        last(t) == CHOOSE k \in 1..Len(all_docs) :
                      /\ all_docs[k].title = t
                      /\ \A j \in (k + 1)..Len(all_docs) : all_docs[j].title # t
    IN  [k \in 1..Len(firsts) |-> all_docs[last(firsts[k].title)]]

\* retrieve_documents(queries), given what each retriever.invoke does
retrieve_documents(qs, resp) ==
    LET loop == RetrieveLoop(qs, resp, 1, <<>>)
    IN  IF loop.raised
        THEN [raised |-> TRUE, docs |-> <<>>, issued |-> loop.issued]
        ELSE [raised |-> FALSE, docs |-> Dedup(loop.all_docs),
              issued |-> loop.issued]

-----------------------------------------------------------------------------
(* filter_documents                                                        *)

MaxFinalDocs == 5

NumBroadQueries == 4

\* lines 191-196
broad_queries(name) ==
    << name,
       name \o <<" ","s","e","c","t","o","r">>,
       name \o <<" ","s","e","r","v","i","c","e","s">>,
       name \o <<" ","m","a","r","k","e","t">> >>

\* lines 167-170 without the .lower()
verified_titles_cased(reply) ==
    LET parts == SplitOn(reply, ",")
    IN  [k \in 1..Len(parts) |-> Strip(parts[k])]

\* lines 167-170
verified_titles(reply) ==
    LET parts == SplitOn(reply, ",")
    IN  [k \in 1..Len(parts) |-> Lower(Strip(parts[k]))]

\* lines 172-187: the Tier-1 survivors, then one document per title
Tier1(docs, reply) ==
    LET vs == verified_titles(reply)
        matched == SelectSeqIdx(docs,
                     {k \in 1..Len(docs) :
                        \E j \in 1..Len(vs) : Contains(Lower(docs[k].title), vs[j])})
    IN  SelectSeqIdx(matched,
            {k \in 1..Len(matched) :
                \A j \in 1..(k - 1) : matched[j].title # matched[k].title})

\* lines 204-208 without the industry-name test of line 207
RECURSIVE Tier2AcceptAny(_, _, _)
Tier2AcceptAny(acc, docs, name) ==
    IF docs = <<>> THEN acc
    ELSE LET doc == Head(docs)
         IN  IF doc.title \notin TitleSet(acc)
             THEN Tier2AcceptAny(Append(acc, doc), Tail(docs), name)
             ELSE Tier2AcceptAny(acc, Tail(docs), name)

\* lines 204-208: the documents of one Tier-2 answer, in order
RECURSIVE Tier2Accept(_, _, _)
Tier2Accept(acc, docs, name) ==
    IF docs = <<>> THEN acc
    ELSE LET doc == Head(docs)
         IN  IF doc.title \notin TitleSet(acc)
                /\ Contains(Lower(doc.title), Lower(name))
             THEN Tier2Accept(Append(acc, doc), Tail(docs), name)
             ELSE Tier2Accept(acc, Tail(docs), name)

\* a Tier-2 loop that stops at the first query that raises
RECURSIVE Tier2LoopAbort(_, _, _, _)
Tier2LoopAbort(acc, svc, k, name) ==
    IF k > NumBroadQueries THEN [docs |-> acc, issued |-> NumBroadQueries]
    ELSE IF svc[k] = ServiceErr THEN [docs |-> acc, issued |-> k]
    ELSE Tier2LoopAbort(Tier2Accept(acc, svc[k], name), svc, k + 1, name)

\* lines 199-208: svc[k] is what the document service does on the k-th
\* broadened query; a query that raises is skipped
RECURSIVE Tier2Loop(_, _, _, _)
Tier2Loop(acc, svc, k, name) ==
    IF k > NumBroadQueries THEN [docs |-> acc, issued |-> NumBroadQueries]
    ELSE IF svc[k] = ServiceErr THEN Tier2Loop(acc, svc, k + 1, name)
    ELSE Tier2Loop(Tier2Accept(acc, svc[k], name), svc, k + 1, name)

\* line 210 left out
NoTruncate(docs) == docs

\* line 210: final_docs[:5]
Truncate(docs) == Take(docs, MaxFinalDocs)

\* filter_documents(raw_docs, user_input, llm), given what the Oracle
\* answers and what the document service does on each broadened query.
\* issued: the broadened queries sent to the document service, in order.
filter_documents(docs, name, reply, svc) ==
    IF docs = <<>>
    THEN [raised |-> FALSE, docs |-> <<>>, oracle |-> 0, issued |-> <<>>]
    ELSE IF reply = OracleErr
    THEN [raised |-> TRUE, docs |-> <<>>, oracle |-> 1, issued |-> <<>>]
    ELSE LET tier1 == Tier1(docs, reply)
         IN  IF Len(tier1) < MaxFinalDocs
             THEN LET t2 == Tier2Loop(tier1, svc, 1, name)
                  IN  [raised |-> FALSE, docs |-> Truncate(t2.docs), oracle |-> 1,
                       issued |-> SubSeq(broad_queries(name), 1, t2.issued)]
             ELSE [raised |-> FALSE, docs |-> Truncate(tier1), oracle |-> 1,
                   issued |-> <<>>]

-----------------------------------------------------------------------------
(* generate_report                                                         *)

\* the sentinel of line 249
None == <<"N","o","n","e">>

FiguresCall == "figures"
ReportCall == "report"

\* a figure-extraction failure that drops the document
SourceLoopSkip(docs, figs) ==
    LET ok == {k \in 1..Len(docs) : figs[k] # OracleErr}
        kept == SelectSeqIdx([k \in 1..Len(docs) |-> k], ok)
    IN  [k \in 1..Len(kept) |->
            [ordinal |-> k, Title |-> docs[kept[k]].title,
             URL |-> docs[kept[k]].source,
             Figures |-> Strip(figs[kept[k]])]]

\* lines 222-256: one SourceRecord per document, numbered from 1; figs[k]
\* is what the Oracle does on the k-th figure-extraction call
SourceLoop(docs, figs) ==
    [k \in 1..Len(docs) |->
        [ordinal |-> k, Title |-> docs[k].title, URL |-> docs[k].source,
         Figures |-> IF figs[k] = OracleErr THEN None ELSE Strip(figs[k])]]

\* generate_report(final_docs, user_input, llm), given what the Oracle does
\* on each figure-extraction call and on the synthesis call of line 358.
\* The prompt texts (context_text, financial_text) are left out.
generate_report(docs, figs, synth) ==
    [raised |-> synth = OracleErr,
     report |-> IF synth = OracleErr THEN <<>> ELSE synth,
     sources_info |-> SourceLoop(docs, figs),
     oracle |-> [k \in 1..Len(docs) |-> FiguresCall] \o <<ReportCall>>]

-----------------------------------------------------------------------------
(* The "Generate Report" handler, lines 444-558, one action per stage.     *)
(* calls is the log of the calls made to the Oracle and to the document    *)
(* service; ext holds what they answered to the stage that ran last.       *)

NoAnswer == [none |-> TRUE]

NotValidated == [raised |-> FALSE, is_valid |-> FALSE, reason |-> <<>>, suggestions |-> <<>>]

MinInputLen == 3

OracleCall(fn, what) == [svc |-> "oracle", fn |-> fn, arg |-> what]

WikiCalls(fn, qs) == [k \in 1..Len(qs) |-> [svc |-> "wiki", fn |-> fn, arg |-> qs[k]]]

\* lines 556-558: except Exception
Fail == pc' = "halted" /\ outcome' = "error"

\* st.stop(), or the end of a branch with nothing after it
Halt(why) == pc' = "halted" /\ outcome' = why

\* a handler whose validation branch has lost its st.stop() (line 474)
AfterValidationNoStop(r) ==
    IF r.raised THEN Fail
    ELSE pc' = "generate_queries" /\ outcome' = outcome

\* lines 464-474
AfterValidation(r) ==
    IF r.raised THEN Fail
    ELSE IF ~r.is_valid THEN Halt("invalid_industry")
    ELSE pc' = "generate_queries" /\ outcome' = outcome

\* a handler whose data-gap branch has lost its st.stop() (line 517)
AfterFilterNoStop(r) ==
    IF r.raised THEN Fail
    ELSE pc' = "generate_report" /\ outcome' = outcome

\* lines 504-517
AfterFilter(r) ==
    IF r.raised THEN Fail
    ELSE IF r.docs = <<>> THEN Halt("data_gap")
    ELSE pc' = "generate_report" /\ outcome' = outcome

\* lines 444-452: the button, the API key and the length of the input
Click ==
    /\ pc = "idle"
    /\ IF ~api_key THEN Halt("no_api_key")
       ELSE IF Len(user_input) < MinInputLen THEN Halt("too_short")
       ELSE pc' = "validate_industry" /\ outcome' = outcome
    /\ UNCHANGED <<api_key, user_input, ext, validation, queries, raw_docs,
                   final_docs, sources_info, calls, returned>>

\* line 464 and the branch after it
StepValidate(Replies) ==
    /\ pc = "validate_industry"
    /\ \E reply \in Replies :
         LET r == validate_industry(reply)
         IN  /\ ext' = [validator_reply |-> reply]
             /\ validation' = r
             /\ returned' = (IF r.raised THEN returned
                             ELSE returned \cup {"validate_industry"})
             /\ calls' = Append(calls, OracleCall("validate_industry", "classify"))
             /\ AfterValidation(r)
    /\ UNCHANGED <<api_key, user_input, queries, raw_docs, final_docs,
                   sources_info>>

\* line 480
StepGenerateQueries(Replies) ==
    /\ pc = "generate_queries"
    /\ \E reply \in Replies :
         LET r == generate_queries(reply)
         IN  /\ ext' = [planner_reply |-> reply]
             /\ calls' = Append(calls, OracleCall("generate_queries", "plan"))
             /\ returned' = (IF r.raised THEN returned
                             ELSE returned \cup {"generate_queries"})
             /\ IF r.raised
                THEN Fail /\ queries' = queries
                ELSE /\ queries' = r.queries
                     /\ pc' = "retrieve_documents"
                     /\ outcome' = outcome
    /\ UNCHANGED <<api_key, user_input, validation, raw_docs, final_docs,
                   sources_info>>

\* lines 490-494
StepRetrieve(Answers) ==
    /\ pc = "retrieve_documents"
    /\ \E resp \in [1..Len(queries) -> Answers] :
         LET r == retrieve_documents(queries, resp)
         IN  /\ ext' = [resp |-> resp]
             /\ returned' = (IF r.raised THEN returned
                             ELSE returned \cup {"retrieve_documents"})
             /\ calls' = calls \o WikiCalls("retrieve_documents", r.issued)
             /\ IF r.raised
                THEN Fail /\ raw_docs' = raw_docs
                ELSE /\ raw_docs' = r.docs
                     /\ IF r.docs = <<>> THEN Halt("no_articles")
                        ELSE pc' = "filter_documents" /\ outcome' = outcome
    /\ UNCHANGED <<api_key, user_input, validation, queries, final_docs,
                   sources_info>>

\* sep.join(ts)
RECURSIVE Join(_, _)
Join(ts, sep) ==
    IF ts = <<>> THEN <<>>
    ELSE IF Len(ts) = 1 THEN ts[1]
    ELSE ts[1] \o sep \o Join(Tail(ts), sep)

\* the Oracle answering the bouncer prompt with exactly the titles it was
\* given, joined by "," or by ", "
EchoTitles(docs) == {Join(Titles(docs), <<",">>), Join(Titles(docs), <<",", " ">>)}

\* lines 504-517
StepFilter(Replies, Scripts) ==
    /\ pc = "filter_documents"
    /\ \E reply \in Replies \cup EchoTitles(raw_docs), svc \in Scripts :
         LET r == filter_documents(raw_docs, user_input, reply, svc)
         IN  /\ ext' = [bouncer_reply |-> reply, svc |-> svc]
             /\ returned' = (IF r.raised THEN returned
                             ELSE returned \cup {"filter_documents"})
             /\ calls' = calls
                  \o (IF r.oracle = 1
                      THEN <<OracleCall("filter_documents", "bouncer")>>
                      ELSE <<>>)
                  \o WikiCalls("filter_documents", r.issued)
             /\ final_docs' = (IF r.raised THEN final_docs ELSE r.docs)
             /\ AfterFilter(r)
    /\ UNCHANGED <<api_key, user_input, validation, queries, raw_docs,
                   sources_info>>

\* line 523 and the display after it
StepReport(FigureReplies, ReportReplies) ==
    /\ pc = "generate_report"
    /\ \E figs \in [1..Len(final_docs) -> FigureReplies], synth \in ReportReplies :
         LET r == generate_report(final_docs, figs, synth)
         IN  /\ ext' = [figs |-> figs, synth |-> synth]
             /\ returned' = (IF r.raised THEN returned
                             ELSE returned \cup {"generate_report"})
             /\ calls' = calls
                  \o [k \in 1..Len(r.oracle) |->
                        OracleCall("generate_report", r.oracle[k])]
             /\ IF r.raised
                THEN Fail /\ sources_info' = sources_info
                ELSE /\ sources_info' = r.sources_info
                     /\ Halt("report")
    /\ UNCHANGED <<api_key, user_input, validation, queries, raw_docs,
                   final_docs>>

-----------------------------------------------------------------------------
(* Inputs                                                                  *)

Doc(t, u, c) == [title |-> t, source |-> u, page_content |-> c]

tTea == <<"T","e","a">>
tTeaMarket == <<"T","e","a"," ","m","a","r","k","e","t">>
tIcedTea == <<"I","c","e","d"," ","t","e","a">>
tCoffee == <<"C","o","f","f","e","e">>
tKettle == <<"K","e","t","t","l","e">>
tCup == <<"C","u","p",","," ","t","e","a">>
tTeaTrade == <<"T","E","A"," ","t","r","a","d","e">>
tMilk == <<"M","i","l","k">>

\* the industry of the unit specifications
Industry == <<"T","e","a">>

\* industries a user may type: empty, too short, long enough
UserInputs == {<<>>, <<"a","b">>, Industry}

\* ---- validate_industry
ValidatorTokens ==
    {VALID, INVALID, SUGGESTIONS, <<"v","a","l","i","d">>, <<"V","a","l","i","d">>, <<"V","A","L","I","D","-">>,
     <<"-">>, <<"n","o">>, <<"a",",","b">>}

Separators == {<<" ">>, <<"\n">>, <<"\t", " ">>}

MaxReplyTokens == 2

RECURSIVE TokenReplies(_)
TokenReplies(n) ==
    IF n = 0 THEN {}
    ELSE IF n = 1 THEN ValidatorTokens
    ELSE {r \o sep \o t : r \in TokenReplies(n - 1), sep \in Separators,
                          t \in ValidatorTokens}

UnitValidatorReplies ==
    {OracleErr, <<>>, <<" ">>}
    \cup {pre \o r : pre \in {<<>>, <<" ">>},
                     r \in UNION {TokenReplies(n) : n \in 1..MaxReplyTokens}}

PipeValidatorReplies ==
    {OracleErr, <<>>, VALID, <<"v","a","l","i","d"," ","o","k">>,
     INVALID \o <<" ","-"," ","n","o","\n">> \o SUGGESTIONS \o <<" ","a",","," ","b">>}

\* ---- generate_queries
PlannerAlphabet == {"-", " ", "\t", "\n", "q"}

MaxPlannerReplyLen == 4

RECURSIVE TextsUpTo(_, _)
TextsUpTo(alphabet, n) ==
    IF n = 0 THEN {<<>>}
    ELSE LET shorter == TextsUpTo(alphabet, n - 1)
         IN  shorter \cup {Append(t, c) : t \in shorter, c \in alphabet}

UnitPlannerReplies == {OracleErr} \cup TextsUpTo(PlannerAlphabet, MaxPlannerReplyLen)

PipePlannerReplies ==
    {OracleErr, <<>>, <<"-"," ","q">>, <<"Q","U","E","R","I","E","S",":","\n","-"," ","q","\n","-"," ","r">>, <<"-">>}

\* ---- retrieve_documents
QueryPool == {<<"q">>, <<"r">>}

MaxQueries == 2

UnitQueryLists == TextsUpTo(QueryPool, MaxQueries)

\* two titles, each with two versions of the page
UnitDocs == {Doc(t, "u", c) : t \in {tTea, tCoffee}, c \in {"c1", "c2"}}

UnitServiceAnswers ==
    {ServiceErr, <<>>} \cup {<<d>> : d \in UnitDocs}
                \cup {<<d, e>> : d \in UnitDocs, e \in UnitDocs}

PipeServiceAnswers ==
    {ServiceErr, <<>>, <<Doc(tTea, "u", "c1"), Doc(tCoffee, "u", "c1")>>,
     <<Doc(tTea, "u", "c2")>>}

\* ---- filter_documents
Universe ==
    << Doc(tTea, "u1", "c1"), Doc(tTeaMarket, "u2", "c1"),
       Doc(tIcedTea, "u3", "c1"), Doc(tCoffee, "u4", "c1"),
       Doc(tKettle, "u5", "c1"), Doc(tCup, "u6", "c1") >>

\* the collections retrieve_documents can hand over: no title twice
UnitRawDocs == {SelectSeqIdx(Universe, S) : S \in SUBSET (1..Len(Universe))}

UnitBouncerReplies ==
    {OracleErr, <<>>, <<"z","z","z">>, <<"t","e","a">>, <<"C","o","f","f","e","e"," ",","," ","K","E","T","T","L","E">>}

Tier2AnswerA ==
    <<Doc(tTeaTrade, "u7", "c1"), Doc(tMilk, "u8", "c1"), Doc(tTea, "u1", "c2")>>

Tier2AnswerB ==
    <<Doc(tTeaMarket, "u2", "c2"), Doc(tIcedTea, "u3", "c2"),
      Doc(tTeaTrade, "u7", "c2")>>

UnitTier2Answers == {ServiceErr, Tier2AnswerA, Tier2AnswerB}

UnitTier2Scripts == [1..NumBroadQueries -> UnitTier2Answers]

PipeBouncerReplies == {OracleErr, <<"z","z","z">>}

PipeTier2Scripts ==
    {[k \in 1..NumBroadQueries |-> ServiceErr], [k \in 1..NumBroadQueries |-> <<>>],
     [k \in 1..NumBroadQueries |-> IF k = 2 THEN Tier2AnswerA ELSE ServiceErr]}

\* ---- generate_report
UnitFinalDocs == {d \in UnitRawDocs : Len(d) >= 1 /\ Len(d) <= MaxFinalDocs}

UnitFigureReplies == {OracleErr, <<" ","N","o","n","e","\n">>, <<"5"," ">>}

ReportReplies == {OracleErr, <<"R">>}

PipeFigureReplies == {OracleErr, None}

-----------------------------------------------------------------------------
(* Specifications                                                          *)

Accepted == [raised |-> FALSE, is_valid |-> TRUE, reason |-> <<>>, suggestions |-> <<>>]

\* the page before the button is pressed
Init ==
    /\ pc = "idle"
    /\ api_key \in BOOLEAN
    /\ user_input \in UserInputs
    /\ ext = NoAnswer /\ validation = NotValidated /\ queries = <<>>
    /\ raw_docs = <<>> /\ final_docs = <<>> /\ sources_info = <<>>
    /\ calls = <<>> /\ returned = {} /\ outcome = "none"

Next ==
    \/ Click
    \/ StepValidate(PipeValidatorReplies)
    \/ StepGenerateQueries(PipePlannerReplies)
    \/ StepRetrieve(PipeServiceAnswers)
    \/ StepFilter(PipeBouncerReplies, PipeTier2Scripts)
    \/ StepReport(PipeFigureReplies, ReportReplies)

\* one run of the handler
Spec == Init /\ [][Next]_vars

\* validate_industry on its own
InitValidate ==
    /\ pc = "validate_industry"
    /\ api_key = TRUE /\ user_input = Industry
    /\ ext = NoAnswer /\ validation = NotValidated /\ queries = <<>>
    /\ raw_docs = <<>> /\ final_docs = <<>> /\ sources_info = <<>>
    /\ calls = <<>> /\ returned = {} /\ outcome = "none"

NextValidate == StepValidate(UnitValidatorReplies)

SpecValidate == InitValidate /\ [][NextValidate]_vars

\* generate_queries on its own
InitQueries ==
    /\ pc = "generate_queries"
    /\ api_key = TRUE /\ user_input = Industry
    /\ ext = NoAnswer /\ validation = Accepted /\ queries = <<>>
    /\ raw_docs = <<>> /\ final_docs = <<>> /\ sources_info = <<>>
    /\ calls = <<>> /\ returned = {"validate_industry"} /\ outcome = "none"

NextQueries == StepGenerateQueries(UnitPlannerReplies)

SpecQueries == InitQueries /\ [][NextQueries]_vars

\* retrieve_documents on its own
InitRetrieve ==
    /\ pc = "retrieve_documents"
    /\ api_key = TRUE /\ user_input = Industry
    /\ ext = NoAnswer /\ validation = Accepted /\ queries \in UnitQueryLists
    /\ raw_docs = <<>> /\ final_docs = <<>> /\ sources_info = <<>>
    /\ calls = <<>> /\ outcome = "none"
    /\ returned = {"validate_industry", "generate_queries"}

NextRetrieve == StepRetrieve(UnitServiceAnswers)

SpecRetrieve == InitRetrieve /\ [][NextRetrieve]_vars

\* filter_documents on its own
InitFilter ==
    /\ pc = "filter_documents"
    /\ api_key = TRUE /\ user_input = Industry
    /\ ext = NoAnswer /\ validation = Accepted /\ queries = <<>>
    /\ raw_docs \in UnitRawDocs
    /\ final_docs = <<>> /\ sources_info = <<>>
    /\ calls = <<>> /\ outcome = "none"
    /\ returned = {"validate_industry", "generate_queries", "retrieve_documents"}

NextFilter == StepFilter(UnitBouncerReplies, UnitTier2Scripts)

SpecFilter == InitFilter /\ [][NextFilter]_vars

\* generate_report on its own
InitReport ==
    /\ pc = "generate_report"
    /\ api_key = TRUE /\ user_input = Industry
    /\ ext = NoAnswer /\ validation = Accepted /\ queries = <<>>
    /\ raw_docs = <<>> /\ final_docs \in UnitFinalDocs
    /\ sources_info = <<>>
    /\ calls = <<>> /\ outcome = "none"
    /\ returned = {"validate_industry", "generate_queries", "retrieve_documents",
                   "filter_documents"}

NextReport == StepReport(UnitFigureReplies, ReportReplies)

SpecReport == InitReport /\ [][NextReport]_vars

-----------------------------------------------------------------------------
(* Properties                                                              *)

Range(seq) == {seq[k] : k \in 1..Len(seq)}

CallsBy(fn) == SelectSeq(calls, LAMBDA c : c.fn = fn)

\* C1: in retrieve_documents a document-service call that fails for one
\* query does not abort the retrieval: every query of the sequence is still
\* executed, the function returns, and the documents of the queries that
\* succeeded are in the result.
C1_FailedQueryDoesNotAbort ==
    pc # "retrieve_documents" =>
        /\ Len(CallsBy("retrieve_documents")) = Len(queries)
        /\ "retrieve_documents" \in returned
        /\ \A q \in 1..Len(queries) :
               ext.resp[q] # ServiceErr =>
                   \A k \in 1..Len(ext.resp[q]) :
                       ext.resp[q][k].title \in TitleSet(raw_docs)

\* t is the first whitespace-delimited token of s, up to letter case if so asked
FirstToken(s, same(_, _)) ==
    \E i \in 1..Len(s) : \E j \in i..Len(s) :
        /\ \A k \in 1..(i - 1) : s[k] \in Whitespace
        /\ \A k \in i..j : s[k] \notin Whitespace
        /\ j = Len(s) \/ s[j + 1] \in Whitespace
        /\ same(SubSeq(s, i, j), VALID)

Exactly(t, w) == t = w

IgnoringCase(t, w) ==
    /\ Len(t) = Len(w)
    /\ \A k \in 1..Len(w) :
           \/ t[k] = w[k]
           \/ \E n \in 1..Len(LowerLetters) :
                  {t[k], w[k]} = {LowerLetters[n], UpperLetters[n]}

ValidatorAnswered ==
    /\ pc # "validate_industry"
    /\ ext.validator_reply # OracleErr
    /\ \E k \in 1..Len(ext.validator_reply) : ext.validator_reply[k] \notin Whitespace

\* C2, as claimed: validate_industry accepts when the reply's first token is
\* exactly VALID, whatever follows, and rejects when the reply begins with
\* any other token.
C2_ExactlyValid ==
    ValidatorAnswered =>
        /\ "validate_industry" \in returned
        /\ validation.is_valid <=> FirstToken(ext.validator_reply, Exactly)

\* C2, amended: validate_industry accepts when the reply's first token is
\* VALID in any letter case (so when it is exactly VALID), whatever follows,
\* and rejects when the first token differs from VALID by more than case.
C2_ValidIgnoringCase ==
    ValidatorAnswered =>
        /\ "validate_industry" \in returned
        /\ validation.is_valid <=> FirstToken(ext.validator_reply, IgnoringCase)

\* the reply is VALID followed by more text, and it is accepted
C2_Witness ==
    /\ ValidatorAnswered
    /\ FirstToken(ext.validator_reply, Exactly)
    /\ Len(ext.validator_reply) > Len(VALID) + 1
    /\ validation.is_valid

\* C3: every element of the sequence generate_queries returns has no
\* leading dash and is non-empty after trimming.
C3_NoLeadingDashNonEmpty ==
    "generate_queries" \in returned =>
        \A k \in 1..Len(queries) :
            /\ Strip(queries[k]) # <<>>
            /\ queries[k][1] # "-"

\* the documents retrieved, in the order retrieved: <<query, place>>
Retrieved ==
    UNION {{<<q, k>> : k \in 1..Len(ext.resp[q])} : q \in 1..Len(queries)}

Later(a, b) == a[1] < b[1] \/ (a[1] = b[1] /\ a[2] < b[2])

\* C4: the output of retrieve_documents has exactly one entry per distinct
\* retrieved title, never two with the same title, and the entry kept for a
\* title is the last document retrieved with that title.
C4_DedupLastWins ==
    "retrieve_documents" \in returned =>
        /\ \A i, j \in 1..Len(raw_docs) :
               i # j => raw_docs[i].title # raw_docs[j].title
        /\ TitleSet(raw_docs) = {ext.resp[a[1]][a[2]].title : a \in Retrieved}
        /\ \A i \in 1..Len(raw_docs) :
               \E a \in Retrieved :
                   /\ ext.resp[a[1]][a[2]] = raw_docs[i]
                   /\ \A b \in Retrieved :
                          Later(a, b) =>
                              ext.resp[b[1]][b[2]].title # raw_docs[i].title

\* a repeated query, a title retrieved twice in different versions, one entry
C4_Witness ==
    /\ "retrieve_documents" \in returned
    /\ Len(queries) = 2 /\ queries[1] = queries[2]
    /\ \E a, b \in Retrieved :
           /\ Later(a, b)
           /\ ext.resp[a[1]][a[2]].title = ext.resp[b[1]][b[2]].title
           /\ ext.resp[a[1]][a[2]] # ext.resp[b[1]][b[2]]
    /\ Len(raw_docs) = 1

FilterAnswered ==
    /\ "filter_documents" \in returned
    /\ raw_docs # <<>>

\* C5: when the Oracle's Tier-1 reply is the comma-joined list of exactly the
\* input titles, every input document survives the Tier-1 substring match,
\* and a collection of at most five documents is returned whole.
C5_EchoKeepsAll ==
    (FilterAnswered /\ ext.bouncer_reply \in EchoTitles(raw_docs)) =>
        /\ Tier1(raw_docs, ext.bouncer_reply) = raw_docs
        /\ Len(raw_docs) <= 5 => \A k \in 1..Len(raw_docs) :
                                     raw_docs[k] \in Range(final_docs)
        /\ Len(raw_docs) > 5 => final_docs = SubSeq(raw_docs, 1, 5)

\* five documents, one of them with a comma in its title, echoed and kept
C5_Witness ==
    /\ FilterAnswered
    /\ ext.bouncer_reply \in EchoTitles(raw_docs)
    /\ Len(raw_docs) = 5
    /\ \E k \in 1..5 : Contains(raw_docs[k].title, <<",">>)
    /\ final_docs = raw_docs

\* C6: the list filter_documents returns has at most 5 documents.
C6_AtMostFive ==
    "filter_documents" \in returned => Len(final_docs) <= 5

\* six documents survive Tier 1 and five are returned
C6_Witness ==
    /\ FilterAnswered
    /\ Len(Tier1(raw_docs, ext.bouncer_reply)) = 6
    /\ Len(final_docs) = 5

\* the Oracle answered the bouncer prompt and fewer than five documents
\* survived Tier 1
Expanded ==
    /\ pc # "filter_documents"
    /\ raw_docs # <<>>
    /\ ext.bouncer_reply # OracleErr
    /\ Len(Tier1(raw_docs, ext.bouncer_reply)) < 5

\* C10: in the Tier-2 expansion a broadened query whose document-service
\* call raises is skipped: all four broadened queries (name, name sector,
\* name services, name market) are issued in order, the Tier-1 survivors and
\* the Tier-2 additions of the queries that succeeded are kept (up to the
\* five returned), and no exception leaves filter_documents.
C10_Tier2ErrorSkipped ==
    Expanded =>
        LET tier1 == Tier1(raw_docs, ext.bouncer_reply)
            sent  == CallsBy("filter_documents")
        IN  /\ "filter_documents" \in returned
            /\ outcome # "error"
            /\ Len(sent) = 5
            /\ sent[1].svc = "oracle"
            /\ \A k \in 2..5 : sent[k].svc = "wiki"
            /\ sent[2].arg = user_input
            /\ sent[3].arg = user_input \o <<" ","s","e","c","t","o","r">>
            /\ sent[4].arg = user_input \o <<" ","s","e","r","v","i","c","e","s">>
            /\ sent[5].arg = user_input \o <<" ","m","a","r","k","e","t">>
            /\ SubSeq(final_docs, 1, Len(tier1)) = tier1
            /\ \A q \in 1..4 :
                   ext.svc[q] # ServiceErr =>
                       \A k \in 1..Len(ext.svc[q]) :
                           Contains(Lower(ext.svc[q][k].title), Lower(user_input))
                               => \/ ext.svc[q][k].title \in TitleSet(final_docs)
                                  \/ Len(final_docs) = 5

\* the first and third broadened queries raise; the second and the fourth
\* still add a document each
C10_Witness ==
    /\ Expanded
    /\ ext.svc[1] = ServiceErr /\ ext.svc[3] = ServiceErr
    /\ ext.svc[2] = Tier2AnswerA /\ ext.svc[4] = Tier2AnswerB
    /\ Tier2AnswerA[1] \in Range(final_docs)
    /\ Tier2AnswerB[1] \in Range(final_docs)

\* C9: in generate_report a document whose figure-extraction call raises
\* still yields a SourceRecord whose figure block is the literal None, the
\* documents are processed in order with ordinals 1..n, and the synthesis
\* call is made exactly once, after the n figure-extraction calls.
C9_FigureFailureAbsorbed ==
    (pc = "halted" /\ final_docs # <<>>) =>
        LET n == Len(final_docs)
            sent == CallsBy("generate_report")
        IN  /\ Len(sent) = n + 1
            /\ \A k \in 1..n : sent[k].arg = "figures"
            /\ sent[n + 1].arg = "report"
            /\ ext.synth # OracleErr =>
                   /\ "generate_report" \in returned
                   /\ Len(sources_info) = n
                   /\ \A k \in 1..n :
                          /\ sources_info[k].ordinal = k
                          /\ sources_info[k].Title = final_docs[k].title
                          /\ sources_info[k].URL = final_docs[k].source
                          /\ ext.figs[k] = OracleErr =>
                                 sources_info[k].Figures = <<"N","o","n","e">>

\* the first of several figure-extraction calls raises, a later one answers
C9_Witness ==
    /\ pc = "halted" /\ outcome = "report"
    /\ Len(final_docs) >= 3
    /\ ext.figs[1] = OracleErr
    /\ ext.figs[3] = <<"5"," ">>
    /\ sources_info[1].Figures = None
    /\ sources_info[3].Figures = <<"5">>

NoCallsBy(fns) == \A k \in 1..Len(calls) : calls[k].fn \notin fns

\* C7: when the industry string is shorter than 3 characters or the
\* Validator rejects it, the run halts as an input error with no Query
\* Planner, document-service, Relevance Filter or Report Synthesizer call,
\* and with no Oracle call at all for a too-short string.
C7_InputErrorHaltsBeforeRetrieval ==
    /\ (pc # "idle" /\ Len(user_input) < 3) =>
           /\ pc = "halted"
           /\ outcome \in {"too_short", "no_api_key"}
           /\ calls = <<>>
    /\ ("validate_industry" \in returned /\ ~validation.is_valid) =>
           /\ pc = "halted"
           /\ outcome = "invalid_industry"
           /\ Len(calls) = 1
           /\ calls[1].fn = "validate_industry"

\* the Validator rejected the industry and the run has halted
C7_Witness ==
    /\ "validate_industry" \in returned
    /\ ~validation.is_valid
    /\ validation.suggestions # <<>>
    /\ outcome = "invalid_industry"

\* C8: the Report Synthesizer and the figure extraction are called only
\* after filter_documents has returned a non-empty list; when retrieval
\* returns no documents or the filter returns none, the run ends in a normal
\* halt (no sources found, data gap) without any such call.
C8_ReportOnlyAfterNonEmptyFilter ==
    /\ ~NoCallsBy({"generate_report"}) =>
           "filter_documents" \in returned /\ final_docs # <<>>
    /\ ("retrieve_documents" \in returned /\ raw_docs = <<>>) =>
           /\ pc = "halted" /\ outcome = "no_articles"
           /\ NoCallsBy({"filter_documents", "generate_report"})
    /\ ("filter_documents" \in returned /\ final_docs = <<>>) =>
           /\ pc = "halted" /\ outcome = "data_gap"
           /\ NoCallsBy({"generate_report"})

\* documents were retrieved, the filter kept none, the run halted
C8_Witness ==
    /\ "filter_documents" \in returned
    /\ raw_docs # <<>> /\ final_docs = <<>>
    /\ outcome = "data_gap"
    /\ NoCallsBy({"generate_report"})

\* the place of a document in the input collection
PlaceIn(docs, d) == CHOOSE k \in 1..Len(docs) : docs[k] = d

\* the documents the document service returned to the broadened queries
Tier2Returned ==
    UNION {Range(ext.svc[q]) : q \in {k \in 1..4 : ext.svc[k] # ServiceErr}}

\* C11: every document filter_documents returns is a Tier-1 survivor or a
\* Tier-2 document whose title contains the industry name, letter case
\* ignored, and differs from the title of every document before it; the
\* Tier-1 survivors come first, in their order in the input collection, and
\* Tier-2 additions appear only when fewer than five documents survived
\* Tier 1.
C11_SurvivorsThenTier2 ==
    FilterAnswered =>
        LET tier1 == Tier1(raw_docs, ext.bouncer_reply)
            n1    == IF Len(tier1) < 5 THEN Len(tier1) ELSE 5
        IN  /\ Len(final_docs) >= n1
            /\ \A k \in 1..n1 :
                   /\ final_docs[k] \in Range(tier1)
                   /\ final_docs[k] \in Range(raw_docs)
            /\ \A i, j \in 1..n1 :
                   i < j => PlaceIn(raw_docs, final_docs[i])
                              < PlaceIn(raw_docs, final_docs[j])
            /\ \A k \in (n1 + 1)..Len(final_docs) :
                   /\ final_docs[k] \in Tier2Returned
                   /\ Contains(Lower(final_docs[k].title), Lower(user_input))
                   /\ \A j \in 1..(k - 1) :
                          final_docs[j].title # final_docs[k].title
            /\ Len(final_docs) > n1 => Len(tier1) < 5

\* two survivors in input order, then a Tier-2 document whose title has the
\* industry name in another letter case; the document without the name and
\* the one with a title already present are left out
C11_Witness ==
    /\ FilterAnswered
    /\ Len(Tier1(raw_docs, ext.bouncer_reply)) = 2
    /\ ext.svc[1] = Tier2AnswerA
    /\ Len(final_docs) >= 3
    /\ final_docs[1] = Universe[1]
    /\ final_docs[3] = Tier2AnswerA[1]
    /\ Tier2AnswerA[2] \notin Range(final_docs)
    /\ Tier2AnswerA[3] \notin Range(final_docs)

=============================================================================
